---- MODULE Spec2Model ----
(***************************************************************************)
(* The process-job webhook (src/app/api/webhook/process-job/route.ts).     *)
(*                                                                         *)
(* One POST handler reacts to a notification that carries a job record.    *)
(* It validates the payload, loads the job row from the store, marks it    *)
(* processing, acquires the input image (inline data URL or remote fetch), *)
(* submits it to the image API and writes complete or failed back.         *)
(*                                                                         *)
(* The handler is an async function: every await of a network call is a    *)
(* suspension point at which another delivery may run.  Each action below  *)
(* is one resumption of the handler: the awaited call's effect and result, *)
(* then the code up to the next awaited network call or to the return.     *)
(*                                                                         *)
(* A JavaScript value is a record: [type |-> "undefined"], [type |->        *)
(* "null"] or [type |-> "string", val |-> <<pieces>>].  The pieces of a    *)
(* string the code inspects (input_image_url) are its characters; a string *)
(* the code only compares or passes on is kept in larger pieces.           *)
(*                                                                         *)
(* src/unnamed/part_000 is an earlier copy of the same handler: the same   *)
(* control flow, without the inline data-URL branch and without            *)
(* processed_at in its two final updates.  The model follows route.ts.     *)
(***************************************************************************)
EXTENDS Integers, Sequences, FiniteSets, TLC

\* ------------------------------------------------------------------ bounds
\* Number of webhook deliveries in one run (each may overlap the others).
MaxDeliveries == 2

Deliveries == 1..MaxDeliveries

\* ------------------------------------------------------- JavaScript values
Undefined == [type |-> "undefined"]
Str(s) == [type |-> "string", val |-> s]
Null == [type |-> "null"]

\* `!v` for the values a JSON payload field takes here: undefined and the
\* empty string are falsy, every other string is truthy.
Falsy(v) == v = Undefined \/ v = Str(<< >>)

\* String.prototype.startsWith
StartsWith(s, p) == Len(s) >= Len(p) /\ SubSeq(s, 1, Len(p)) = p

\* Template-literal / string concatenation of two string values.
Concat(a, b) == Str(a.val \o b.val)

Upper == <<"A","B","C","D","E","F","G","H","I","J","K","L","M",
           "N","O","P","Q","R","S","T","U","V","W","X","Y","Z">>
Lower == <<"a","b","c","d","e","f","g","h","i","j","k","l","m",
           "n","o","p","q","r","s","t","u","v","w","x","y","z">>
Digits == <<"0","1","2","3","4","5","6","7","8","9">>

Range(f) == {f[i] : i \in DOMAIN f}

\* The base64 alphabet, in value order (value = position - 1).
B64Alphabet == Upper \o Lower \o Digits \o <<"+", "/">>

B64Value(c) == (CHOOSE i \in DOMAIN B64Alphabet : B64Alphabet[i] = c) - 1

\* ASCII whitespace that atob strips, and the line terminators that `.` of a
\* regular expression does not match.
AsciiWhitespace == {" ", "\t", "\n", "\f", "\r"}
LineTerminators == {"\n", "\r"}

\* The character class [A-Za-z-+/] of the data-URL pattern.
MimeClass == Range(Upper) \cup Range(Lower) \cup {"-", "+", "/"}

DataPrefix == <<"d","a","t","a",":">>
Base64Marker == <<";","b","a","s","e","6","4",",">>

\* isBase64DataUrl(url)
isBase64DataUrl(url) == StartsWith(url, DataPrefix)

\* Length of the longest run of MimeClass characters of s starting at i.
RECURSIVE ClassRun(_, _)
ClassRun(s, i) ==
    IF i <= Len(s) /\ s[i] \in MimeClass THEN 1 + ClassRun(s, i + 1) ELSE 0

NoMatch == [matched |-> FALSE]

\* dataUrl.match(/^data:([A-Za-z-+/]+);base64,(.+)$/): the two groups, or
\* NoMatch.  The class excludes ';', so group 1 is the whole run of class
\* characters after "data:".
DataUrlMatch(dataUrl) ==
    IF ~StartsWith(dataUrl, DataPrefix) THEN NoMatch
    ELSE LET k == ClassRun(dataUrl, Len(DataPrefix) + 1)
             afterMime == Len(DataPrefix) + k
             rest == SubSeq(dataUrl, afterMime + 1, Len(dataUrl))
         IN  IF k = 0 \/ ~StartsWith(rest, Base64Marker) THEN NoMatch
             ELSE LET data == SubSeq(rest, Len(Base64Marker) + 1, Len(rest))
                  IN  IF data = << >> \/ Range(data) \cap LineTerminators # {}
                      THEN NoMatch
                      ELSE [matched |-> TRUE,
                            mimeType |-> SubSeq(dataUrl, Len(DataPrefix) + 1, afterMime),
                            base64Data |-> data]

RECURSIVE StripWhitespace(_)
StripWhitespace(s) ==
    IF s = << >> THEN << >>
    ELSE IF Head(s) \in AsciiWhitespace THEN StripWhitespace(Tail(s))
    ELSE <<Head(s)>> \o StripWhitespace(Tail(s))

\* Trailing padding removed when the length is a multiple of four.
StripPadding(s) ==
    IF Len(s) % 4 # 0 \/ s = << >> THEN s
    ELSE IF Len(s) >= 2 /\ s[Len(s)] = "=" /\ s[Len(s) - 1] = "="
         THEN SubSeq(s, 1, Len(s) - 2)
    ELSE IF s[Len(s)] = "=" THEN SubSeq(s, 1, Len(s) - 1)
    ELSE s

\* Bytes of a run of base64 characters (padding already removed).
RECURSIVE DecodeGroups(_)
DecodeGroups(s) ==
    IF Len(s) >= 4 THEN
        LET n == B64Value(s[1]) * 262144 + B64Value(s[2]) * 4096
                 + B64Value(s[3]) * 64 + B64Value(s[4])
        IN  <<n \div 65536, (n \div 256) % 256, n % 256>>
            \o DecodeGroups(SubSeq(s, 5, Len(s)))
    ELSE IF Len(s) = 3 THEN
        LET n == B64Value(s[1]) * 4096 + B64Value(s[2]) * 64 + B64Value(s[3])
        IN  <<n \div 1024, (n \div 4) % 256>>
    ELSE IF Len(s) = 2 THEN
        LET n == B64Value(s[1]) * 64 + B64Value(s[2])
        IN  <<n \div 16>>
    ELSE << >>

\* atob(base64Data): the char codes of the binary string; ok is FALSE when
\* atob throws (InvalidCharacterError).
atob(base64Data) ==
    LET s == StripPadding(StripWhitespace(base64Data))
    IN  IF Len(s) % 4 = 1 \/ ~(Range(s) \subseteq Range(B64Alphabet))
        THEN [ok |-> FALSE]
        ELSE [ok |-> TRUE, codes |-> DecodeGroups(s)]

\* ASCII lower-casing, as the Blob constructor applies to its type option.
ToLowerCase(s) ==
    [i \in DOMAIN s |->
        IF s[i] \in Range(Upper)
        THEN Lower[CHOOSE k \in DOMAIN Upper : Upper[k] = s[i]]
        ELSE s[i]]

InvalidDataUrl == Str(<<"Invalid data URL format">>)
InvalidCharacter == Str(<<"The string to be decoded is not correctly encoded.">>)

\* base64DataUrlToBlob(dataUrl): [ok |-> TRUE, blob |-> ...] or
\* [ok |-> FALSE, message |-> ...] when it throws.
base64DataUrlToBlob(dataUrl) ==
    LET matches == DataUrlMatch(dataUrl)
    IN  IF ~matches.matched THEN [ok |-> FALSE, message |-> InvalidDataUrl]
        ELSE LET binaryString == atob(matches.base64Data)
             IN  IF ~binaryString.ok
                 THEN [ok |-> FALSE, message |-> InvalidCharacter]
                 ELSE [ok |-> TRUE,
                       blob |-> [bytes |-> [i \in DOMAIN binaryString.codes |->
                                               binaryString.codes[i] % 256],
                                 type |-> ToLowerCase(matches.mimeType)]]

\* ------------------------------------------------------------ the store
\* The jobs table: a set of rows.  Rows are created by whatever inserts
\* them, in status pending, before their notification is delivered.
NewJob(id, url) ==
    [id |-> id, input_image_url |-> url, status |-> "pending",
     result_image_url |-> Null, error_message |-> Null, processed_at |-> Null]

Job1 == Str(<<"job-1">>)
Job2 == Str(<<"job-2">>)
\* An id no row of the table has.
JobAbsent == Str(<<"job-9">>)

RemoteUrl == Str(<<"h","t","t","p",":","/","/","x","/","i">>)
\* data:image/png;base64,iVA=   (the bytes 137, 80)
InlineUrl ==
    Str(DataPrefix \o <<"i","m","a","g","e","/","p","n","g">> \o Base64Marker
        \o <<"i","V","A","=">>)
\* data:image/jp2;base64,iVA=   (a digit in the media type: no match)
BadInlineUrl ==
    Str(DataPrefix \o <<"i","m","a","g","e","/","j","p","2">> \o Base64Marker
        \o <<"i","V","A","=">>)

\* Mutant: a read that fails hands back a row all the same.
SelectSingleErrorDropped(rows, id, outcome) ==
    [data |-> CHOOSE r \in rows : TRUE, error |-> Null]

\* supabase.from("jobs").select("*").eq("id", id).single(): the row, or an
\* error when the query fails or does not match exactly one row.
SelectSingle(rows, id, outcome) ==
    LET hit == {r \in rows : r.id = id}
    IN  IF outcome = "error"
        THEN [data |-> Null, error |-> [message |-> Str(<<"store unavailable">>)]]
        ELSE IF Cardinality(hit) # 1
        THEN [data |-> Null, error |-> [message |-> Str(<<"no single row">>)]]
        ELSE [data |-> CHOOSE r \in hit : TRUE, error |-> Null]

\* A row with the fields of patch overwritten.
Patched(r, patch) ==
    [f \in DOMAIN r |-> IF f \in DOMAIN patch THEN patch[f] ELSE r[f]]

\* Mutant: an update is applied whatever its outcome.
UpdateAppliedAnyway(rows, id, patch, outcome) ==
    {IF r.id = id THEN Patched(r, patch) ELSE r : r \in rows}

\* Mutant: an update without its filter on id.
UpdateEveryRow(rows, id, patch, outcome) ==
    IF outcome # "ok" THEN rows ELSE {Patched(r, patch) : r \in rows}

\* supabase.from("jobs").update(patch).eq("id", id): the table afterwards.
\* An update that reports an error, or whose await rejects, changes nothing.
Update(rows, id, patch, outcome) ==
    IF outcome # "ok" THEN rows
    ELSE {IF r.id = id THEN Patched(r, patch) ELSE r : r \in rows}

\* Mutant: the error of an update is dropped.
UpdateErrorIgnored(outcome) == Null

\* The error field of an update's result.
UpdateError(outcome) ==
    IF outcome = "error" THEN [message |-> Str(<<"write rejected">>)] ELSE Null

\* An awaited store call resolves with a result that has no error ("ok"),
\* resolves with a result that has one ("error"), or rejects ("throw": the
\* request did not reach the store).
StoreOutcomes == {"ok", "error", "throw"}

\* The message of the error an awaited store call rejects with.
StoreThrew == Str(<<"fetch failed">>)

\* new Date().toISOString()
Now == Str(<<"now">>)

\* -------------------------------------------------------- the environment
MalformedJson == [json |-> FALSE]
Payload(id, url, status) ==
    [json |-> TRUE, record |-> [id |-> id, input_image_url |-> url, status |-> status]]
NoRecord == [json |-> TRUE, record |-> Undefined]

PayloadIds == {Undefined, Job1, JobAbsent}
PayloadUrls == {Undefined, Str(<< >>), RemoteUrl, InlineUrl}
PayloadStatuses ==
    {Undefined, Str(<< >>), Str(<<"pending">>), Str(<<"processing">>),
     Str(<<"complete">>)}

\* The notifications delivered: every combination of the fields for the job
\* of the table, and the notifications of a job the table does not have.
Bodies ==
    {MalformedJson, NoRecord}
    \cup {Payload(i, u, s) :
            i \in PayloadIds \ {JobAbsent}, u \in PayloadUrls, s \in PayloadStatuses}
    \cup {Payload(JobAbsent, RemoteUrl, s) : s \in PayloadStatuses}

\* Results of fetch(input_image_url).
FetchOutcomes ==
    {[ok |-> TRUE, statusText |-> Str(<<"OK">>),
      blob |-> [bytes |-> <<137, 80>>, type |-> <<"image/png">>]],
     [ok |-> FALSE, statusText |-> Str(<<"Not Found">>)]}

\* Every call of the image API that succeeds returns a URL of its own.
ResultUrl(d) == Str(<<"https://img/", d>>)

\* Results of the POST to the image API for delivery d: a response whose
\* JSON is { data: [{ url }] } (url possibly absent) or a non-success
\* response.
ApiOutcomes(d) ==
    {[ok |-> TRUE, url |-> u] : u \in {ResultUrl(d), Undefined}}
    \cup {[ok |-> FALSE, status |-> Str(<<"429">>), text |-> Str(<<"rate limited">>)]}

\* --------------------------------------------------------------- state
VARIABLES
    jobs,            \* the jobs table of the store
    pc,              \* where each delivery's handler is suspended
    id,              \* local id, destructured from body.record
    input_image_url, \* local input_image_url, destructured from body.record
    imageBlob,       \* local imageBlob
    resultImageUrl,  \* local resultImageUrl
    processError,    \* message of the error caught by the pipeline's catch
    response,        \* the HTTP response returned
    calls            \* the outbound calls each delivery has made, in order

vars == <<jobs, pc, id, input_image_url, imageBlob, resultImageUrl, processError, response, calls>>

\* The table as the first notification is delivered.
InitialJobs == {NewJob(Job1, RemoteUrl), NewJob(Job2, InlineUrl)}

Init ==
    /\ jobs = InitialJobs
    /\ pc = [d \in Deliveries |-> "idle"]
    /\ id = [d \in Deliveries |-> Undefined]
    /\ input_image_url = [d \in Deliveries |-> Undefined]
    /\ imageBlob = [d \in Deliveries |-> Null]
    /\ resultImageUrl = [d \in Deliveries |-> Null]
    /\ processError = [d \in Deliveries |-> Null]
    /\ response = [d \in Deliveries |-> Null]
    /\ calls = [d \in Deliveries |-> << >>]

\* body?.record?.<field>
Field(b, f) == IF b.record = Undefined THEN Undefined ELSE b.record[f]

Json(status, json) == [status |-> status, json |-> json]

Respond(d, r) ==
    /\ response' = [response EXCEPT ![d] = r]
    /\ pc' = [pc EXCEPT ![d] = "done"]

Called(d, c) == calls' = [calls EXCEPT ![d] = Append(@, c)]

\* Mutant: the outer catch answers as a client error.
OuterCatchAs400(d, message) ==
    Respond(d, Json(400, [error |-> Str(<<"Internal server error">>),
                          details |-> message]))

\* The handler's outer catch: the generic 500 with the error's message.
OuterCatch(d, message) ==
    Respond(d, Json(500, [error |-> Str(<<"Internal server error">>),
                          details |-> message]))

\* ------------------------------------------------------------- the handler
\* Mutant: the required-field check forgets status.
MissingRequiredNoStatus(b) ==
    Falsy(Field(b, "id")) \/ Falsy(Field(b, "input_image_url"))

\* Mutant: the required-field check forgets id.
MissingRequiredNoId(b) ==
    Falsy(Field(b, "input_image_url")) \/ Falsy(Field(b, "status"))

\* !body?.record?.id || !body?.record?.input_image_url || !body?.record?.status
MissingRequired(b) ==
    \/ Falsy(Field(b, "id"))
    \/ Falsy(Field(b, "input_image_url"))
    \/ Falsy(Field(b, "status"))

\* Mutant: the guard skips completed jobs only.
NotPendingOnlyComplete(status) == status = Str(<<"complete">>)

\* status !== "pending"
NotPending(status) == status # Str(<<"pending">>)

\* A delivery arrives: req.json(), the required-field check and the status
\* guard, up to the await of the store read.  Deliveries are numbered in
\* order of arrival.  The locals id and input_image_url are kept only on the
\* path that goes on to use them.
Receive(d, b) ==
    /\ pc[d] = "idle"
    /\ \A e \in Deliveries : e < d => pc[e] # "idle"
    /\ IF ~b.json
       THEN OuterCatch(d, Str(<<"Unexpected token">>))
            /\ UNCHANGED <<id, input_image_url>>
       ELSE IF MissingRequired(b)
       THEN Respond(d, Json(400,
                [error |-> Str(<<"Invalid payload: Missing required fields">>)]))
            /\ UNCHANGED <<id, input_image_url>>
       ELSE IF NotPending(b.record.status)
       THEN Respond(d, Json(200,
                [message |-> Str(<<"Job is not in pending status; no action taken.">>)]))
            /\ UNCHANGED <<id, input_image_url>>
       ELSE /\ id' = [id EXCEPT ![d] = b.record.id]
            /\ input_image_url' =
                   [input_image_url EXCEPT ![d] = b.record.input_image_url]
            /\ pc' = [pc EXCEPT ![d] = "load"]
            /\ UNCHANGED response
    /\ UNCHANGED <<jobs, imageBlob, resultImageUrl, processError, calls>>

\* The store read returns.
Load(d, outcome) ==
    /\ pc[d] = "load"
    /\ LET got == SelectSingle(jobs, id[d], outcome)
       IN  /\ Called(d, [op |-> "select", id |-> id[d]])
           /\ IF outcome = "throw" THEN OuterCatch(d, StoreThrew)
              ELSE IF got.error # Null \/ got.data = Null
              THEN Respond(d, Json(500,
                       [error |-> Str(<<"Failed to fetch job from Supabase">>),
                        details |-> IF got.error = Null THEN Undefined
                                    ELSE got.error.message]))
              ELSE /\ pc' = [pc EXCEPT ![d] = "mark"]
                   /\ UNCHANGED response
    /\ UNCHANGED <<jobs, id, input_image_url, imageBlob, resultImageUrl, processError>>

\* Mutant: the first update leaves the job pending.
ProcessingPatchStillPending == [status |-> "pending"]

ProcessingPatch == [status |-> "processing"]

\* Mutant: the result of the update to processing is checked.
MarkChecked(d, outcome) ==
    /\ pc[d] = "mark"
    /\ jobs' = Update(jobs, id[d], ProcessingPatch, outcome)
    /\ Called(d, [op |-> "update", id |-> id[d], patch |-> ProcessingPatch])
    /\ IF outcome # "ok"
       THEN OuterCatch(d, StoreThrew)
       ELSE pc' = [pc EXCEPT ![d] = "acquire"] /\ UNCHANGED response
    /\ UNCHANGED <<id, input_image_url, imageBlob, resultImageUrl, processError>>

\* The update to processing returns; its result is not looked at.  The
\* call is outside the pipeline's try: a rejection goes to the outer catch.
Mark(d, outcome) ==
    /\ pc[d] = "mark"
    /\ jobs' = Update(jobs, id[d], ProcessingPatch, outcome)
    /\ Called(d, [op |-> "update", id |-> id[d], patch |-> ProcessingPatch])
    /\ IF outcome = "throw"
       THEN OuterCatch(d, StoreThrew)
       ELSE pc' = [pc EXCEPT ![d] = "acquire"] /\ UNCHANGED response
    /\ UNCHANGED <<id, input_image_url, imageBlob, resultImageUrl, processError>>

Throw(d, message) ==
    /\ processError' = [processError EXCEPT ![d] = message]
    /\ pc' = [pc EXCEPT ![d] = "fail"]

\* The input image is an inline data URL: decode it.
AcquireInline(d) ==
    /\ pc[d] = "acquire"
    /\ isBase64DataUrl(input_image_url[d].val)
    /\ LET r == base64DataUrlToBlob(input_image_url[d].val)
       IN  IF r.ok
           THEN /\ imageBlob' = [imageBlob EXCEPT ![d] = r.blob]
                /\ pc' = [pc EXCEPT ![d] = "submit"]
                /\ UNCHANGED processError
           ELSE /\ Throw(d, r.message)
                /\ UNCHANGED imageBlob
    /\ UNCHANGED <<jobs, id, input_image_url, resultImageUrl, response, calls>>

\* The input image is a remote URL: the fetch returns.
AcquireRemote(d, imageResponse) ==
    /\ pc[d] = "acquire"
    /\ ~isBase64DataUrl(input_image_url[d].val)
    /\ Called(d, [op |-> "fetch", url |-> input_image_url[d], ok |-> imageResponse.ok])
    /\ IF ~imageResponse.ok
       THEN /\ Throw(d, Concat(Str(<<"Failed to download input image: ">>),
                               imageResponse.statusText))
            /\ UNCHANGED imageBlob
       ELSE /\ imageBlob' = [imageBlob EXCEPT ![d] = imageResponse.blob]
            /\ pc' = [pc EXCEPT ![d] = "submit"]
            /\ UNCHANGED processError
    /\ UNCHANGED <<jobs, id, input_image_url, resultImageUrl, response>>

\* Mutant: a success response is not checked for its URL.
ApiErrorUrlUnchecked(openAIResponse) ==
    IF ~openAIResponse.ok
    THEN Concat(Str(<<"OpenAI API error: ">>), openAIResponse.status)
    ELSE Null

\* The error the handler throws on the image API's answer, or Null.
ApiError(openAIResponse) ==
    IF ~openAIResponse.ok
    THEN Concat(Concat(Concat(Str(<<"OpenAI API error: ">>), openAIResponse.status),
                       Str(<<" ">>)),
                openAIResponse.text)
    ELSE IF Falsy(openAIResponse.url)
    THEN Str(<<"OpenAI API did not return a result image URL">>)
    ELSE Null

\* The image API answers.
Submit(d, openAIResponse) ==
    /\ pc[d] = "submit"
    /\ Called(d, [op |-> "api", image |-> imageBlob[d], ok |-> openAIResponse.ok])
    /\ IF ApiError(openAIResponse) # Null
       THEN /\ Throw(d, ApiError(openAIResponse))
            /\ UNCHANGED resultImageUrl
       ELSE /\ resultImageUrl' = [resultImageUrl EXCEPT ![d] = openAIResponse.url]
            /\ pc' = [pc EXCEPT ![d] = "finalize"]
            /\ UNCHANGED processError
    /\ UNCHANGED <<jobs, id, input_image_url, imageBlob, response>>

\* Mutant: the success update leaves processed_at out.
CompletePatchNoTimestamp(url) ==
    [status |-> "complete", result_image_url |-> url]

CompletePatch(url) ==
    [status |-> "complete", result_image_url |-> url, processed_at |-> Now]

\* The update to complete returns.  A rejection is caught by the pipeline's
\* catch, as the error thrown on a reported error is.
Finalize(d, outcome) ==
    /\ pc[d] = "finalize"
    /\ LET patch == CompletePatch(resultImageUrl[d])
           updateError == UpdateError(outcome)
       IN  /\ jobs' = Update(jobs, id[d], patch, outcome)
           /\ Called(d, [op |-> "update", id |-> id[d], patch |-> patch])
           /\ IF outcome = "throw"
              THEN Throw(d, StoreThrew) /\ UNCHANGED response
              ELSE IF updateError # Null
              THEN /\ Throw(d, Concat(Str(<<"Failed to update job in Supabase: ">>),
                                      updateError.message))
                   /\ UNCHANGED response
              ELSE /\ Respond(d, Json(200,
                          [message |-> Str(<<"Job processed successfully">>),
                           result_image_url |-> resultImageUrl[d]]))
                   /\ UNCHANGED processError
    /\ UNCHANGED <<id, input_image_url, imageBlob, resultImageUrl>>

\* Mutant: the failure update leaves error_message out.
FailedPatchNoMessage(message) == [status |-> "failed", processed_at |-> Now]

FailedPatch(message) ==
    [status |-> "failed", error_message |-> message, processed_at |-> Now]

\* The update to failed returns; its result is not looked at.  The call is
\* in the catch block: a rejection goes to the outer catch.
Fail(d, outcome) ==
    /\ pc[d] = "fail"
    /\ LET patch == FailedPatch(processError[d])
       IN  /\ jobs' = Update(jobs, id[d], patch, outcome)
           /\ Called(d, [op |-> "update", id |-> id[d], patch |-> patch])
    /\ IF outcome = "throw"
       THEN OuterCatch(d, StoreThrew)
       ELSE Respond(d, Json(500, [error |-> Str(<<"Job processing failed">>),
                                  details |-> processError[d]]))
    /\ UNCHANGED <<id, input_image_url, imageBlob, resultImageUrl, processError>>

Next ==
    \E d \in Deliveries :
        \/ \E b \in Bodies : Receive(d, b)
        \/ \E o \in StoreOutcomes : Load(d, o)
        \/ \E o \in StoreOutcomes : Mark(d, o)
        \/ AcquireInline(d)
        \/ \E r \in FetchOutcomes : AcquireRemote(d, r)
        \/ \E r \in ApiOutcomes(d) : Submit(d, r)
        \/ \E o \in StoreOutcomes : Finalize(d, o)
        \/ \E o \in StoreOutcomes : Fail(d, o)

Spec == Init /\ [][Next]_vars

\* ------------------------------------------------ inline image payloads
\* Longest byte sequence encoded.
MaxBytes == 3

\* Byte values: the least, the greatest, and the first byte of a PNG.
ByteValues == {0, 137, 255}

ByteSeqs == UNION {[1..n -> ByteValues] : n \in 0..MaxBytes}

\* Media types: lower case within the class of the pattern, with a digit,
\* and in upper case.
MediaTypes ==
    {<<"i","m","a","g","e","/","p","n","g">>,
     <<"i","m","a","g","e","/","j","p","2">>,
     <<"I","M","A","G","E","/","P","N","G">>}

B64Char(v) == B64Alphabet[v + 1]

\* Standard base64 (RFC 4648) of a byte sequence, with padding.
RECURSIVE Base64(_)
Base64(b) ==
    IF b = << >> THEN << >>
    ELSE IF Len(b) = 1 THEN
        <<B64Char(b[1] \div 4), B64Char((b[1] % 4) * 16), "=", "=">>
    ELSE IF Len(b) = 2 THEN
        LET n == b[1] * 256 + b[2]
        IN  <<B64Char(n \div 1024), B64Char((n \div 16) % 64),
              B64Char((n % 16) * 4), "=">>
    ELSE
        LET n == b[1] * 65536 + b[2] * 256 + b[3]
        IN  <<B64Char(n \div 262144), B64Char((n \div 4096) % 64),
              B64Char((n \div 64) % 64), B64Char(n % 64)>>
            \o Base64(SubSeq(b, 4, Len(b)))

\* 'data:' + m + ';base64,' + base64(b)
DataUrl(m, b) == Str(DataPrefix \o m \o Base64Marker \o Base64(b))

\* The input images of a job: every inline payload, and a remote URL.
InputImages ==
    {DataUrl(m, b) : m \in MediaTypes, b \in ByteSeqs}
    \cup {InlineUrl, BadInlineUrl, RemoteUrl}

\* The notification the store sends for a row.
Notification(r) == Payload(r.id, r.input_image_url, Str(<<r.status>>))

\* One pending job with one of the input images, and one delivery of its
\* notification.
InlineInit ==
    /\ \E u \in InputImages : jobs = {NewJob(Job1, u)}
    /\ pc = [d \in Deliveries |-> "idle"]
    /\ id = [d \in Deliveries |-> Undefined]
    /\ input_image_url = [d \in Deliveries |-> Undefined]
    /\ imageBlob = [d \in Deliveries |-> Null]
    /\ resultImageUrl = [d \in Deliveries |-> Null]
    /\ processError = [d \in Deliveries |-> Null]
    /\ response = [d \in Deliveries |-> Null]
    /\ calls = [d \in Deliveries |-> << >>]

InlineNext ==
    \/ \E r \in jobs : Receive(1, Notification(r))
    \/ \E o \in StoreOutcomes : Load(1, o)
    \/ \E o \in StoreOutcomes : Mark(1, o)
    \/ AcquireInline(1)
    \/ \E r \in FetchOutcomes : AcquireRemote(1, r)
    \/ \E r \in ApiOutcomes(1) : Submit(1, r)
    \/ \E o \in StoreOutcomes : Finalize(1, o)
    \/ \E o \in StoreOutcomes : Fail(1, o)

InlineSpec == InlineInit /\ [][InlineNext]_vars

\* ------------------------------------------------------------ properties
\* The row of the table rows whose id is i.
RowOf(rows, i) == CHOOSE r \in rows : r.id = i

HasRow(rows, i) == \E r \in rows : r.id = i

\* The calls of a delivery's log that are of kind op.
CallsOf(d, op) == {k \in DOMAIN calls[d] : calls[d][k].op = op}

Responded(d, status) == pc[d] = "done" /\ response[d].status = status

\* A required field of the payload is absent.
MissingField(b) ==
    \E f \in {"id", "input_image_url", "status"} : Field(b, f) = Undefined

\* The step answers delivery d with the given status as it is received,
\* with no outbound call made and the table as it was.
AnsweredAtOnce(d, status, key) ==
    /\ pc'[d] = "done"
    /\ response'[d].status = status
    /\ key \in DOMAIN response'[d].json
    /\ calls'[d] = << >>
    /\ jobs' = jobs

\* C1: a notification whose record.id, record.input_image_url or
\* record.status is missing is answered 400 as it is received, and that
\* delivery makes no outbound call at all (no store read or update, no image
\* fetch, no image-API call) and leaves the table as it was.  Stated on the
\* step: a receipt that is not answered so is the receipt of no body with a
\* missing field.
C1_MissingFieldRejected ==
    /\ [][\A d \in Deliveries :
            (pc[d] = "idle" /\ pc'[d] # "idle" /\ ~AnsweredAtOnce(d, 400, "error"))
            => ~\E b \in Bodies : b.json /\ MissingField(b) /\ Receive(d, b)]_vars
    /\ [](\A d \in Deliveries : Responded(d, 400) => calls[d] = << >>)

C1_Witness == \E d \in Deliveries : Responded(d, 400) /\ calls[d] = << >>

\* C2 as claimed: a notification whose record.status is present and is not
\* "pending" is answered 200 with an informational message, with no outbound
\* call and the table unchanged.
C2_AsClaimed ==
    [][\A d \in Deliveries : \A b \in Bodies :
          (/\ pc[d] = "idle" /\ b.json
           /\ Field(b, "status") # Undefined
           /\ Field(b, "status") # Str(<<"pending">>)
           /\ Receive(d, b))
          => AnsweredAtOnce(d, 200, "message")]_vars

\* C2, amended: a notification whose record.id, record.input_image_url and
\* record.status are all present and non-empty, and whose status is not
\* "pending", is answered 200 with an informational message, with no
\* outbound call and the table unchanged.  Stated on the step: a receipt
\* that is not answered so is the receipt of no such body.
C2_NonPendingIsNoOp ==
    /\ [][\A d \in Deliveries :
            (pc[d] = "idle" /\ pc'[d] # "idle" /\ ~AnsweredAtOnce(d, 200, "message"))
            => ~\E i \in PayloadIds \ {Undefined, Str(<< >>)} :
                \E u \in PayloadUrls \ {Undefined, Str(<< >>)} :
                \E st \in PayloadStatuses \ {Undefined, Str(<< >>), Str(<<"pending">>)} :
                    Receive(d, Payload(i, u, st))]_vars
    /\ [](\A d \in Deliveries :
            (Responded(d, 200) /\ "result_image_url" \notin DOMAIN response[d].json)
            => calls[d] = << >>)

C2_Witness ==
    \E d \in Deliveries :
        /\ Responded(d, 200)
        /\ "result_image_url" \notin DOMAIN response[d].json
        /\ calls[d] = << >>

\* C3: a delivery whose image was acquired, whose image-API call returned a
\* result URL and whose update to complete the store accepts: as the handler
\* responds, the stored job has status complete, result_image_url equal to
\* the URL the image API returned and processed_at set, and the response is
\* 200 and carries that URL.
C3_SuccessIsStored ==
    [][\A d \in Deliveries :
          (pc[d] = "finalize" /\ Finalize(d, "ok"))
          => LET job == RowOf(jobs', id[d])
             IN  /\ HasRow(jobs', id[d])
                 /\ job.status = "complete"
                 /\ job.result_image_url = ResultUrl(d)
                 /\ job.processed_at # Null
                 /\ pc'[d] = "done"
                 /\ response'[d].status = 200
                 /\ response'[d].json.result_image_url = ResultUrl(d)]_vars

C3_Witness ==
    \E d \in Deliveries :
        /\ Responded(d, 200)
        /\ CallsOf(d, "fetch") # {}
        /\ CallsOf(d, "api") # {}
        /\ response[d].json.result_image_url = ResultUrl(d)
        /\ RowOf(jobs, id[d]).status = "complete"
        /\ RowOf(jobs, id[d]).result_image_url = ResultUrl(d)

\* The remote fetch of delivery d returned a non-success status.
FetchRefused(d) == \E k \in CallsOf(d, "fetch") : ~calls[d][k].ok

\* The string value s has the pieces of detail in it.
Contains(s, detail) ==
    s # Null /\ Range(detail.val) \subseteq Range(s.val)

NotFound == Str(<<"Not Found">>)

\* What C4 says of the step in which delivery d's update to failed returns
\* and the handler responds.
C4_Outcome(d) ==
    LET job == RowOf(jobs', id[d])
    IN  /\ job.status = "failed"
        /\ Contains(job.error_message, NotFound)
        /\ pc'[d] = "done"
        /\ response'[d].status = 500
        /\ \A k \in DOMAIN calls'[d] : calls'[d][k].op # "api"

ApiRefused(d) ==
    pc[d] = "fail" /\ calls[d] # << >> /\ calls[d][Len(calls[d])].op = "api"

\* The message says that the image API failed or returned no result.
IndicatesApiFailure(message) ==
    \/ Contains(message, Str(<<"OpenAI API error: ">>))
    \/ message = Str(<<"OpenAI API did not return a result image URL">>)

\* No update of delivery d's log (as it will be) writes result_image_url.
NoResultWritten(d) ==
    \A k \in DOMAIN calls'[d] :
        calls'[d][k].op = "update" => "result_image_url" \notin DOMAIN calls'[d][k].patch

\* What C5 says of the step in which delivery d's update to failed returns
\* and the handler responds.
C5_Outcome(d) ==
    LET job == RowOf(jobs', id[d])
    IN  /\ job.status = "failed"
        /\ IndicatesApiFailure(job.error_message)
        /\ NoResultWritten(d)
        /\ pc'[d] = "done"
        /\ response'[d].status = 500

Redelivered(e, b) ==
    /\ pc[e] # "idle"
    /\ b.json /\ ~MissingRequired(b)
    /\ b.record.status = Str(<<"pending">>)
    /\ id[e] = b.record.id
    /\ input_image_url[e] = b.record.input_image_url
    /\ CallsOf(e, "update") # {}
    /\ HasRow(jobs, id[e])
    /\ RowOf(jobs, id[e]).status # "pending"

\* C6: a notification delivered again after an earlier delivery of it has
\* moved the job's stored status off pending is a no-op: it is answered 200
\* as it is received, makes no outbound call and leaves the table as it was.
C6_AsClaimed ==
    [][\A d \in Deliveries : \A b \in Bodies :
          (/\ pc[d] = "idle"
           /\ \E e \in Deliveries : e < d /\ Redelivered(e, b)
           /\ Receive(d, b))
          => AnsweredAtOnce(d, 200, "message")]_vars

\* C7: once a job's stored status is complete or failed, no step changes it.
C7_AsClaimed ==
    [][\A r \in jobs :
          r.status \in {"complete", "failed"}
          => HasRow(jobs', r.id) /\ RowOf(jobs', r.id).status = r.status]_vars

\* C8: a stored job that is complete has a result_image_url and no
\* error_message; one that is failed has an error_message and no
\* result_image_url.
C8_AsClaimed ==
    \A r \in jobs :
        /\ r.status = "complete"
           => r.result_image_url # Null /\ r.error_message = Null
        /\ r.status = "failed"
           => r.error_message # Null /\ r.result_image_url = Null

\* C9: a stored job that is pending or processing has no processed_at.
C9_AsClaimed ==
    \A r \in jobs :
        r.status \in {"pending", "processing"} => r.processed_at = Null

WriteRejected == Str(<<"write rejected">>)

\* Delivery d's update to complete was reported as failed.
CompleteRejected(d) ==
    /\ pc[d] = "fail" /\ calls[d] # << >>
    /\ Contains(processError[d], WriteRejected)
    /\ calls[d][Len(calls[d])].op = "update"
    /\ calls[d][Len(calls[d])].patch.status = "complete"

\* C10: when the update to complete reports an error the handler does not
\* respond 200: it goes through the failure path, which issues an update to
\* failed carrying the error text, and responds 500.
C10_CompleteErrorTakesFailurePath ==
    [][\A d \in Deliveries :
          /\ (pc[d] = "finalize" /\ Finalize(d, "error"))
             => /\ pc'[d] = "fail"
                /\ response'[d] = Null
                /\ Contains(processError'[d], WriteRejected)
          /\ \A o \in StoreOutcomes :
                (CompleteRejected(d) /\ Fail(d, o))
                => LET last == calls'[d][Len(calls'[d])]
                   IN  /\ last.op = "update"
                       /\ last.id = id[d]
                       /\ last.patch.status = "failed"
                       /\ Contains(last.patch.error_message, WriteRejected)
                       /\ pc'[d] = "done"
                       /\ response'[d].status = 500]_vars

C10_Witness ==
    \E d \in Deliveries :
        /\ Responded(d, 500)
        /\ Contains(response[d].json.details, WriteRejected)
        /\ \E k \in CallsOf(d, "update") :
              /\ calls[d][k].patch.status = "complete"
              /\ k + 1 \in CallsOf(d, "update")
              /\ calls[d][k + 1].patch.status = "failed"

FetchJobFailed == Str(<<"Failed to fetch job from Supabase">>)

\* C11: when the store read of the job row returns an error or no row, the
\* handler responds 500 in that step, the table is as it was, and the only
\* outbound call that delivery has made, then and ever after, is the read:
\* no store update, no image fetch, no image-API call.
C11_LoadFailureStops ==
    /\ [][\A d \in Deliveries : \A o \in {"ok", "error"} :
            (/\ pc[d] = "load"
             /\ o = "error" \/ ~HasRow(jobs, id[d])
             /\ Load(d, o))
            => /\ pc'[d] = "done"
               /\ response'[d].status = 500
               /\ response'[d].json.error = FetchJobFailed
               /\ jobs' = jobs
               /\ calls'[d] = <<[op |-> "select", id |-> id[d]]>>]_vars
    /\ [](\A d \in Deliveries :
            (Responded(d, 500) /\ response[d].json.error = FetchJobFailed)
            => calls[d] = <<[op |-> "select", id |-> id[d]]>>)

C11_Witness ==
    \E d, e \in Deliveries :
        /\ Responded(d, 500) /\ response[d].json.error = FetchJobFailed
        /\ Responded(e, 500) /\ response[e].json.error = FetchJobFailed
        /\ ~HasRow(jobs, id[d]) /\ HasRow(jobs, id[e])
        /\ RowOf(jobs, id[e]).status = "pending"
        /\ CallsOf(d, "select") # {} /\ CallsOf(e, "select") # {}

InternalServerError == Str(<<"Internal server error">>)

\* The step takes delivery d into the outer catch: the body does not parse,
\* or an awaited store call outside the pipeline's try rejects.
EndsInOuterCatch(d) ==
    \/ pc[d] = "idle" /\ Receive(d, MalformedJson)
    \/ pc[d] = "load" /\ Load(d, "throw")
    \/ pc[d] = "mark" /\ Mark(d, "throw")
    \/ pc[d] = "fail" /\ Fail(d, "throw")

\* Delivery d was answered by the outer catch.
InOuterCatch(d) ==
    /\ pc[d] = "done"
    /\ "error" \in DOMAIN response[d].json
    /\ response[d].json.error = InternalServerError

\* No delivery but d has issued a store update.
OnlyUpdater(d) == \A e \in Deliveries \ {d} : CallsOf(e, "update") = {}

\* C12 as claimed: a delivery that ends in the outer catch has performed no
\* store mutation.  With no other delivery writing, the table is then as it
\* was at the start.
C12_AsClaimed ==
    \A d \in Deliveries : (InOuterCatch(d) /\ OnlyUpdater(d)) => jobs = InitialJobs

\* C12, amended: a delivery that ends in the outer catch is answered with
\* the generic 500 'Internal server error', and the step that takes it there
\* writes nothing; unless it is the update to failed that threw, the
\* delivery had issued no store update before, so it has mutated nothing.
C12_OuterCatchIsGeneric ==
    /\ [][\A d \in Deliveries :
            EndsInOuterCatch(d)
            => /\ pc'[d] = "done"
               /\ response'[d].status = 500
               /\ response'[d].json.error = InternalServerError
               /\ jobs' = jobs
               /\ pc[d] # "fail" => CallsOf(d, "update") = {}]_vars
    /\ [](\A d \in Deliveries :
            (InOuterCatch(d) /\ OnlyUpdater(d) /\ CallsOf(d, "update") \subseteq {2})
            => jobs = InitialJobs)

C12_Witness ==
    \E d, e \in Deliveries :
        /\ InOuterCatch(d) /\ calls[d] = << >>
        /\ InOuterCatch(e) /\ CallsOf(e, "update") = {2} /\ Len(calls[e]) = 2
        /\ jobs = InitialJobs

\* Bodies that parse and lack a required field.
IncompleteBodies ==
    {NoRecord,
     Payload(Undefined, RemoteUrl, Str(<<"pending">>)),
     Payload(Job1, Undefined, Str(<<"pending">>)),
     Payload(Job1, InlineUrl, Undefined)}

\* C13 as claimed: a body that is not parseable JSON is answered 400, as a
\* body with a missing field is, with no store mutation.
C13_AsClaimed ==
    [][\A d \in Deliveries :
          (pc[d] = "idle" /\ Receive(d, MalformedJson))
          => AnsweredAtOnce(d, 400, "error")]_vars

\* C13, amended: a body with a missing required field is answered 400 and a
\* body that is not parseable JSON is answered with the outer catch's 500;
\* either is answered as it is received, with no outbound call made and the
\* table as it was.
C13_MalformedIs500 ==
    [][\A d \in Deliveries :
          /\ (pc[d] = "idle" /\ Receive(d, MalformedJson))
             => /\ AnsweredAtOnce(d, 500, "error")
                /\ response'[d].json.error = InternalServerError
          /\ \A b \in IncompleteBodies :
                (pc[d] = "idle" /\ Receive(d, b))
                => AnsweredAtOnce(d, 400, "error")]_vars

C13_Witness ==
    \E d, e \in Deliveries :
        /\ InOuterCatch(d) /\ response[d].status = 500 /\ calls[d] = << >>
        /\ Responded(e, 400) /\ calls[e] = << >>
        /\ jobs = InitialJobs

\* C14: a pending job whose input_image_url is 'data:' + m + ';base64,' +
\* base64(b) is decoded to exactly the bytes b with declared type m, whatever
\* the byte sequence b and the media type m, and its delivery makes no
\* remote fetch of the input image.
C14_AsClaimed ==
    [][\A m \in MediaTypes : \A b \in ByteSeqs :
          (/\ pc[1] = "acquire"
           /\ input_image_url[1] = DataUrl(m, b)
           /\ pc'[1] # "acquire")
          => /\ pc'[1] = "submit"
             /\ imageBlob'[1] = [bytes |-> b, type |-> m]
             /\ CallsOf(1, "fetch") = {}
             /\ calls'[1] = calls[1]]_vars

\* The step appends to delivery d's log an update of its job that writes a
\* terminal status.
IssuesTerminalWrite(d) ==
    /\ Len(calls'[d]) = Len(calls[d]) + 1
    /\ LET last == calls'[d][Len(calls'[d])]
       IN  /\ last.op = "update"
           /\ last.id = id[d]
           /\ last.patch.status \in {"complete", "failed"}

\* Delivery d has read its job, written processing and called the image API.
RanPipeline(d) ==
    /\ CallsOf(d, "select") = {1}
    /\ 2 \in CallsOf(d, "update") /\ calls[d][2].patch = ProcessingPatch
    /\ CallsOf(d, "api") # {}

\* C15: the guard gives no mutual exclusion.  Whatever the other deliveries
\* are doing and whatever the stored status is, a delivery whose read finds
\* the row goes on to write processing, a delivery that has written
\* processing goes on to acquire the image, and a delivery at its final
\* update issues a write of a terminal status.  The witness is a run in
\* which two deliveries of the same job overlap and both do all of it.
C15_NoMutualExclusion ==
    [][\A d \in Deliveries :
          /\ (pc[d] = "load" /\ HasRow(jobs, id[d]) /\ Load(d, "ok"))
             => pc'[d] = "mark"
          /\ (pc[d] = "mark" /\ Mark(d, "ok"))
             => /\ pc'[d] = "acquire"
                /\ RowOf(jobs', id[d]).status = "processing"
          /\ (pc[d] \in {"finalize", "fail"} /\ pc'[d] # pc[d])
             => IssuesTerminalWrite(d)]_vars

\* Delivery 2 arrived after delivery 1 and its update to complete was
\* accepted before that of delivery 1 was: delivery 2 ran within the span
\* of delivery 1, on the same job, and both ran the whole pipeline.
C15_Witness ==
    /\ id[1] = id[2]
    /\ RanPipeline(1) /\ RanPipeline(2)
    /\ Responded(1, 200) /\ response[1].json.result_image_url = ResultUrl(1)
    /\ Responded(2, 200) /\ response[2].json.result_image_url = ResultUrl(2)
    /\ RowOf(jobs, id[1]).status = "complete"
    /\ RowOf(jobs, id[1]).result_image_url = ResultUrl(1)

\* The edges of the job state machine.
StatusEdges ==
    {<<"pending", "processing">>, <<"processing", "complete">>,
     <<"processing", "failed">>}

\* C16: the stored status of a job changes only along pending ->
\* processing, processing -> complete and processing -> failed, the store's
\* update calls reporting errors or not.
C16_AsClaimed ==
    [][\A r \in jobs :
          LET after == RowOf(jobs', r.id)
          IN  after.status # r.status => <<r.status, after.status>> \in StatusEdges]_vars

JobProcessingFailed == Str(<<"Job processing failed">>)

\* C17 as claimed: when the update to failed fails, by reporting an error
\* or by throwing, the response is the outer catch's generic 500.
C17_AsClaimed ==
    [][\A d \in Deliveries : \A o \in {"error", "throw"} :
          (pc[d] = "fail" /\ Fail(d, o))
          => response'[d].json.error = InternalServerError]_vars

\* C17, amended: when the update to failed fails, nothing is written and the
\* delivery responds 500 in that step, so it attempts no further update;
\* the response is the outer catch's 'Internal server error' when the update
\* threw and 'Job processing failed' when it reported an error.
C17_FailedUpdateFailure ==
    [][\A d \in Deliveries : \A o \in {"error", "throw"} :
          (pc[d] = "fail" /\ Fail(d, o))
          => /\ jobs' = jobs
             /\ Len(calls'[d]) = Len(calls[d]) + 1
             /\ pc'[d] = "done"
             /\ response'[d].status = 500
             /\ response'[d].json.error =
                   IF o = "throw" THEN InternalServerError ELSE JobProcessingFailed]_vars

\* The last call delivery d made is its update to failed.
LastIsFailedUpdate(d) ==
    /\ calls[d] # << >>
    /\ calls[d][Len(calls[d])].op = "update"
    /\ calls[d][Len(calls[d])].patch.status = "failed"

\* A delivery whose update to failed threw and one whose update to failed
\* was rejected, the job left in processing.
C17_Witness ==
    \E d, e \in Deliveries :
        /\ InOuterCatch(d) /\ LastIsFailedUpdate(d)
        /\ Responded(e, 500) /\ response[e].json.error = JobProcessingFailed
        /\ LastIsFailedUpdate(e)
        /\ id[d] = id[e]
        /\ RowOf(jobs, id[d]).status = "processing"

\* The patch of the last call of delivery d's log, as it will be.
LastPatch(d) == calls'[d][Len(calls'[d])].patch

\* C18: the update to processing is best-effort.  Whether the store accepts
\* it or reports an error, the delivery goes on to acquire the image with
\* the same locals and the same log; and the response and the terminal
\* write of a delivery are made from its locals alone (the result URL or
\* the caught error), not from what the table holds, so they are the same
\* in both cases.
C18_MarkIsBestEffort ==
    [][\A d \in Deliveries :
          /\ \A o \in {"ok", "error"} :
                (pc[d] = "mark" /\ Mark(d, o))
                => /\ pc'[d] = "acquire"
                   /\ calls'[d] = Append(calls[d],
                          [op |-> "update", id |-> id[d],
                           patch |-> [status |-> "processing"]])
                   /\ <<id'[d], input_image_url'[d], imageBlob'[d]>>
                        = <<id[d], input_image_url[d], imageBlob[d]>>
                   /\ <<resultImageUrl'[d], processError'[d], response'[d]>>
                        = <<resultImageUrl[d], processError[d], response[d]>>
          /\ \A o \in StoreOutcomes :
                (pc[d] = "finalize" /\ Finalize(d, o))
                => /\ LastPatch(d) = [status |-> "complete",
                                     result_image_url |-> resultImageUrl[d],
                                     processed_at |-> Now]
                   /\ o = "ok" => response'[d].json.result_image_url = resultImageUrl[d]
          /\ \A o \in StoreOutcomes :
                (pc[d] = "fail" /\ Fail(d, o))
                => /\ LastPatch(d) = [status |-> "failed",
                                     error_message |-> processError[d],
                                     processed_at |-> Now]
                   /\ o # "throw" => response'[d].json.details = processError[d]]_vars

\* A delivery, the only one writing, whose update to processing was
\* rejected (the job is still pending) and which has gone on to acquire the
\* image and to call the image API.
C18_Witness ==
    \E d \in Deliveries :
        /\ pc[d] = "finalize"
        /\ OnlyUpdater(d)
        /\ CallsOf(d, "update") = {2}
        /\ CallsOf(d, "api") # {}
        /\ RowOf(jobs, id[d]).status = "pending"

\* C19: no job is left stuck in processing.  A delivery that alone writes
\* to its job and has set it to processing leaves it complete or failed by
\* the step in which it responds.
C19_AsClaimed ==
    [][\A d \in Deliveries :
          (/\ pc[d] # "done" /\ pc'[d] = "done"
           /\ OnlyUpdater(d)
           /\ HasRow(jobs, id[d])
           /\ RowOf(jobs, id[d]).status = "processing")
          => RowOf(jobs', id[d]).status \in {"complete", "failed"}]_vars

\* The fields of a job the handler writes.
WrittenFields == {"status", "result_image_url", "error_message", "processed_at"}

\* C20: the frame of the store writes.  A step keeps every row, with its id
\* and input_image_url; a row it changes is the row whose id is the id of
\* the delivery taking the step, and its status is not pending afterwards.
\* The id of a delivery is the record.id of its payload from receipt on.
\* Every update a delivery has issued targets that id and writes status,
\* result_image_url, error_message and processed_at only, with a status
\* other than pending.
C20_WritesAreFramed ==
    /\ [][/\ Cardinality(jobs') = Cardinality(jobs)
          /\ \A r \in jobs :
                /\ HasRow(jobs', r.id)
                /\ RowOf(jobs', r.id).input_image_url = r.input_image_url
                /\ RowOf(jobs', r.id) # r
                   => /\ \E d \in Deliveries : id[d] = r.id /\ pc'[d] # pc[d]
                      /\ RowOf(jobs', r.id).status # "pending"
          /\ \A d \in Deliveries :
                /\ pc[d] # "idle" => id'[d] = id[d]
                /\ \A i \in {Job1, JobAbsent} : \A u \in {RemoteUrl, InlineUrl} :
                      (pc[d] = "idle" /\ Receive(d, Payload(i, u, Str(<<"pending">>))))
                      => id'[d] = i]_vars
    /\ [](\A d \in Deliveries : \A k \in CallsOf(d, "update") :
            /\ calls[d][k].id = id[d]
            /\ DOMAIN calls[d][k].patch \subseteq WrittenFields
            /\ calls[d][k].patch.status # "pending")

\* Job-1 has been failed by one delivery and completed by another, and
\* job-2 is as it was created.
C20_Witness ==
    /\ NewJob(Job2, InlineUrl) \in jobs
    /\ RowOf(jobs, Job1).status = "complete"
    /\ RowOf(jobs, Job1).error_message # Null
    /\ RowOf(jobs, Job1).input_image_url = RemoteUrl
    /\ \E d \in Deliveries :
          /\ Responded(d, 200) /\ id[d] = Job1
          /\ Cardinality(CallsOf(d, "update")) = 2

====
